---- MODULE Spec2Model ----
(***************************************************************************)
(* XML to HTML converter (lib/xml-converter.ts).  One conversion request:  *)
(* the DOMParser result xmlDoc is classified on its root element and       *)
(* rendered by exactly one renderer.                                       *)
(*                                                                         *)
(* Strings.  A JavaScript string is a sequence of atoms (opaque non-empty  *)
(* words), so that concatenation is \o, the empty string is <<>> and       *)
(* `s || d` is IF s = <<>> THEN d ELSE s.  Tag names are single atoms.     *)
(* HTML.  An HTML string is the sequence of its tokens (start tag with its *)
(* attributes, end tag, character data); the insignificant white space the *)
(* template literals put between tags is left out.  Text values are atoms  *)
(* without markup characters.                                              *)
(***************************************************************************)
EXTENDS Integers, Sequences, FiniteSets, TLC

VARIABLES
  xmlString,     \* the argument of convertXmlToHtml and formatXml
  xmlDoc,        \* what DOMParser made of it
  phase,         \* the promise of convertXmlToHtml: idle, pending, resolved, rejected
  html,          \* the value the promise resolved with
  formatted,     \* the last call of formatXml or formatHtml and its result
  activeTab, xmlInput, htmlOutput, renderedHtml, error, isConverting,
  formattedXml,  \* the state of the XmlConverter component
  zip            \* the archive handleDownloadZip wrote last

libVars == <<xmlString, xmlDoc, phase, html, formatted>>

uiVars ==
  <<activeTab, xmlInput, htmlOutput, renderedHtml, error, isConverting,
    formattedXml, zip>>

vars == <<libVars, uiVars>>

----------------------------------------------------------------------------
(* Bounds of the input families *)

MaxKids == 2
MaxRows == 2
MaxCells == 2
MaxItems == 2
MaxNodes == 8
MaxLen == 4

----------------------------------------------------------------------------
(* The DOM: nodes of the parsed document *)

Elem(tag, attrs, kids) ==
  [type |-> "element", tagName |-> tag, attributes |-> attrs,
   childNodes |-> kids, data |-> <<>>]

TextNode(s) ==
  [type |-> "text", tagName |-> "#text", attributes |-> <<>>,
   childNodes |-> <<>>, data |-> s]

Null ==
  [type |-> "null", tagName |-> "#null", attributes |-> <<>>,
   childNodes |-> <<>>, data |-> <<>>]

Attr(n, v) == [name |-> n, value |-> v]

RECURSIVE FlatMapFrom(_, _, _)
FlatMapFrom(s, Op(_), i) ==
  IF i > Len(s) THEN <<>> ELSE Op(s[i]) \o FlatMapFrom(s, Op, i + 1)

FlatMap(s, Op(_)) == FlatMapFrom(s, Op, 1)

Map(s, Op(_)) == [i \in 1..Len(s) |-> Op(s[i])]

IsElement(n) == n.type = "element"

children(e) == SelectSeq(e.childNodes, IsElement)

RECURSIVE textContent(_)
textContent(n) ==
  IF n.type = "text" THEN n.data ELSE FlatMap(n.childNodes, textContent)

hasAttribute(e, n) == \E i \in 1..Len(e.attributes) : e.attributes[i].name = n

getAttribute(e, n) ==
  LET idx == {i \in 1..Len(e.attributes) : e.attributes[i].name = n}
  IN  IF idx = {} THEN <<>>
      ELSE e.attributes[CHOOSE i \in idx : \A j \in idx : i <= j].value

\* String.prototype.toLowerCase on the tag names of the input alphabets.
toLowerCase(t) ==
  CASE t = "Table" -> "table"
    [] t = "SVG" -> "svg"
    [] t = "Item" -> "item"
    [] t = "X" -> "x"
    [] t = "Y" -> "y"
    [] t = "Z" -> "z"
    [] OTHER -> t

\* The descendants of e in document order, each with its parent's tag name.
RECURSIVE descendants(_)
descendants(e) ==
  LET one(c) == <<[el |-> c, parent |-> e.tagName]>> \o descendants(c)
  IN  FlatMap(children(e), one)

\* A selector list: a set of [tag, parent]; parent "*" is any parent
\* ('title' is [title, *], 'channel > title' is [title, channel]).
Sel(tag) == {[tag |-> tag, parent |-> "*"]}

Child(parent, tag) == {[tag |-> tag, parent |-> parent]}

matches(d, sel) ==
  \E s \in sel : d.el.tagName = s.tag /\ (s.parent = "*" \/ d.parent = s.parent)

querySelectorAll(e, sel) ==
  LET hit(d) == matches(d, sel)
      el(d) == d.el
  IN  Map(SelectSeq(descendants(e), hit), el)

querySelector(e, sel) ==
  LET all == querySelectorAll(e, sel)
  IN  IF all = <<>> THEN Null ELSE all[1]

WhiteSpace == {" ", "\n"}

\* String.prototype.trim: s without its leading and trailing white space.
RECURSIVE trim(_)
trim(s) ==
  IF s = <<>> THEN s
  ELSE IF Head(s) \in WhiteSpace THEN trim(Tail(s))
  ELSE IF s[Len(s)] \in WhiteSpace THEN trim(SubSeq(s, 1, Len(s) - 1))
  ELSE s

----------------------------------------------------------------------------
(* HTML tokens *)

Open(tag, attrs) == [k |-> "open", name |-> tag, attrs |-> attrs, text |-> <<>>]

Close(tag) == [k |-> "close", name |-> tag, attrs |-> <<>>, text |-> <<>>]

Empty(tag, attrs) == [k |-> "empty", name |-> tag, attrs |-> attrs, text |-> <<>>]

Chars(s) ==
  IF s = <<>> THEN <<>>
  ELSE <<[k |-> "text", name |-> "#text", attrs |-> <<>>, text |-> s]>>

Class(c) == <<Attr(<<"class">>, c)>>

Style(css) == <<Open("style", <<>>)>> \o Chars(<<css>>) \o <<Close("style")>>

----------------------------------------------------------------------------
(* The renderers *)

TableCss == "table-css: th,td border 1px"

TabularCss == "table-css: th,td border-bottom 1px"

SemanticCss == "semantic-css"

\* convertTableXmlToHtml, "Process header if it exists".
tableHead(tableElement) ==
  LET header == querySelector(tableElement, Sel("header"))
      th(col) == <<Open("th", <<>>)>> \o Chars(textContent(col)) \o <<Close("th")>>
  IN  IF header # Null
      THEN <<Open("thead", <<>>), Open("tr", <<>>)>>
           \o FlatMap(querySelectorAll(header, Sel("column")), th)
           \o <<Close("tr"), Close("thead")>>
      ELSE <<>>

\* Mutant: each row is cut to the number of header columns.
tableBody_CutToHeader(tableElement) ==
  LET header == querySelector(tableElement, Sel("header"))
      width == IF header = Null THEN 0 ELSE Len(querySelectorAll(header, Sel("column")))
      td(cell) == <<Open("td", <<>>)>> \o Chars(textContent(cell)) \o <<Close("td")>>
      tr(row) ==
        LET cells == querySelectorAll(row, Sel("cell"))
        IN  <<Open("tr", <<>>)>>
            \o FlatMap(IF header = Null \/ Len(cells) <= width THEN cells
                       ELSE SubSeq(cells, 1, width), td)
            \o <<Close("tr")>>
      rows == querySelectorAll(tableElement, Sel("row"))
  IN  IF Len(rows) > 0
      THEN <<Open("tbody", <<>>)>> \o FlatMap(rows, tr) \o <<Close("tbody")>>
      ELSE <<>>

\* Mutant: the tbody is written whether or not there are rows.
tableBody_AlwaysBody(tableElement) ==
  LET td(cell) == <<Open("td", <<>>)>> \o Chars(textContent(cell)) \o <<Close("td")>>
      tr(row) == <<Open("tr", <<>>)>>
                 \o FlatMap(querySelectorAll(row, Sel("cell")), td)
                 \o <<Close("tr")>>
      rows == querySelectorAll(tableElement, Sel("row"))
  IN  <<Open("tbody", <<>>)>> \o FlatMap(rows, tr) \o <<Close("tbody")>>

\* convertTableXmlToHtml, "Process rows": cells by position.
tableBody(tableElement) ==
  LET td(cell) == <<Open("td", <<>>)>> \o Chars(textContent(cell)) \o <<Close("td")>>
      tr(row) == <<Open("tr", <<>>)>>
                 \o FlatMap(querySelectorAll(row, Sel("cell")), td)
                 \o <<Close("tr")>>
      rows == querySelectorAll(tableElement, Sel("row"))
  IN  IF Len(rows) > 0
      THEN <<Open("tbody", <<>>)>> \o FlatMap(rows, tr) \o <<Close("tbody")>>
      ELSE <<>>

\* convertTableXmlToHtml: header/column and row/cell.
convertTableXmlToHtml(tableElement) ==
  <<Open("div", Class(<<"xml-table-container">>))>> \o Style(TableCss)
  \o <<Open("div", Class(<<"table-responsive">>)), Open("table", Class(<<"table">>))>>
  \o tableHead(tableElement)
  \o tableBody(tableElement)
  \o <<Close("table"), Close("div"), Close("div")>>

\* `s || d` on strings.
OrElse(s, d) == IF s = <<>> THEN d ELSE s

\* `e?.textContent || d`.
TextOr(e, d) == IF e = Null THEN d ELSE OrElse(textContent(e), d)

feedItem(item) ==
  LET itemTitle == TextOr(querySelector(item, Sel("title")), <<"Untitled">>)
      itemLink == TextOr(querySelector(item, Sel("link")), <<"#">>)
      itemDesc == TextOr(querySelector(item,
                    Sel("description") \cup Sel("summary") \cup Sel("content")), <<>>)
  IN  <<Open("div", Class(<<"feed-item">>)), Open("h2", <<>>),
        Open("a", <<Attr(<<"href">>, itemLink)>>)>>
      \o Chars(itemTitle)
      \o <<Close("a"), Close("h2"), Open("div", Class(<<"feed-content">>))>>
      \o Chars(itemDesc)
      \o <<Close("div"), Close("div")>>

\* Mutant: only `item` elements are taken, not `entry`.
feedItems_ItemOnly(rootElement) == querySelectorAll(rootElement, Sel("item"))

\* convertFeedToHtml, "Find items/entries".
feedItems(rootElement) ==
  querySelectorAll(rootElement, Sel("item") \cup Sel("entry"))

\* convertFeedToHtml: title, description, then the items.
convertFeedToHtml(rootElement) ==
  LET title == TextOr(querySelector(rootElement,
                 Sel("title") \cup Child("channel", "title")), <<"XML Feed">>)
      description == TextOr(querySelector(rootElement,
                       Sel("description") \cup Child("channel", "description")
                       \cup Sel("subtitle")), <<>>)
      items == feedItems(rootElement)
  IN  <<Open("div", Class(<<"xml-feed">>)), Open("h1", <<>>)>>
      \o Chars(title) \o <<Close("h1")>>
      \o (IF description # <<>>
          THEN <<Open("p", Class(<<"feed-description">>))>> \o Chars(description)
               \o <<Close("p")>>
          ELSE <<>>)
      \o (IF Len(items) > 0
          THEN <<Open("div", Class(<<"feed-items">>))>> \o FlatMap(items, feedItem)
               \o <<Close("div")>>
          ELSE <<>>)
      \o <<Close("div")>>

TabularTags == {"table", "grid", "dataset", "records", "rows"}

\* Mutant: the early return on at most one child is missing.
isTabularData_NoCountGuard(element) ==
  IF toLowerCase(element.tagName) \in TabularTags THEN TRUE
  ELSE LET ch == children(element)
       IN  IF Len(ch) = 0 THEN FALSE
           ELSE (\A i \in 1..Len(ch) : ch[i].tagName = ch[1].tagName)
                /\ Len(children(ch[1])) > 1

\* isTabularData: a tabular tag name, or repeated same-tag children whose
\* first has more than one child element.
isTabularData(element) ==
  IF toLowerCase(element.tagName) \in TabularTags THEN TRUE
  ELSE LET ch == children(element)
       IN  IF Len(ch) <= 1 THEN FALSE
           ELSE LET firstChildTag == ch[1].tagName
                    allSameTag == \A i \in 1..Len(ch) : ch[i].tagName = firstChildTag
                IN  IF allSameTag /\ Len(ch) > 1
                    THEN Len(children(ch[1])) > 1
                    ELSE FALSE

\* Array.from(new Set(s)): the distinct members of s in first-seen order.
RECURSIVE DistinctFrom(_, _, _)
DistinctFrom(s, i, seen) ==
  IF i > Len(s) THEN seen
  ELSE DistinctFrom(s, i + 1,
                    IF \E j \in 1..Len(seen) : seen[j] = s[i] THEN seen
                    ELSE Append(seen, s[i]))

Distinct(s) == DistinctFrom(s, 1, <<>>)

columnNamesOf(rows) ==
  LET tag(cell) == cell.tagName
      names(row) == Map(children(row), tag)
  IN  Distinct(FlatMap(rows, names))

\* convertToHtmlTable: one column per distinct field tag, cells by name.
convertToHtmlTable(element) ==
  LET rows == children(element)
      columnNames == columnNamesOf(rows)
      th(colName) == <<Open("th", <<>>)>> \o Chars(<<colName>>) \o <<Close("th")>>
      tr(row) ==
        LET td(colName) ==
              LET cell == querySelector(row, Sel(colName))
                  cellContent == IF cell # Null THEN textContent(cell) ELSE <<>>
              IN  <<Open("td", <<>>)>> \o Chars(cellContent) \o <<Close("td")>>
        IN  <<Open("tr", <<>>)>> \o FlatMap(columnNames, td) \o <<Close("tr")>>
  IN  IF Len(rows) = 0 THEN <<>>
      ELSE <<Open("div", Class(<<"xml-table-container">>))>> \o Style(TabularCss)
           \o <<Open("div", Class(<<"table-responsive">>)),
                Open("table", Class(<<"table">>)
                       \o <<Attr(<<"border">>, <<"1">>), Attr(<<"cellpadding">>, <<"8">>),
                            Attr(<<"cellspacing">>, <<"0">>)>>),
                Open("thead", <<>>), Open("tr", <<>>)>>
           \o FlatMap(columnNames, th)
           \o <<Close("tr"), Close("thead"), Open("tbody", <<>>)>>
           \o FlatMap(rows, tr)
           \o <<Close("tbody"), Close("table"), Close("div"), Close("div")>>

tagMapping ==
  [title |-> "h1", subtitle |-> "h2", header |-> "header", footer |-> "footer",
   section |-> "section", paragraph |-> "p", p |-> "p", list |-> "ul",
   item |-> "li", link |-> "a", image |-> "img", img |-> "img",
   table |-> "table", row |-> "tr", cell |-> "td", heading |-> "h3",
   content |-> "div", div |-> "div", span |-> "span", article |-> "article",
   nav |-> "nav", button |-> "button", input |-> "input"]

\* tagMapping is an object literal: a key it does not hold is looked up on
\* Object.prototype, whose `constructor` and `__proto__` are truthy values,
\* formatted into the tag by the template literal.
ObjectPrototype ==
  ("constructor" :> "function Object() { [native code] }")
  @@ ("__proto__" :> "[object Object]")

\* tagMapping[tagName] || 'div'
htmlTagOf(tagName) ==
  IF tagName \in DOMAIN tagMapping THEN tagMapping[tagName]
  ELSE IF tagName \in DOMAIN ObjectPrototype THEN ObjectPrototype[tagName]
  ELSE "div"

\* Mutant: every element is taken for the root.
isDocumentElement_Always(element, documentElement) == element.type = "element"

\* element === element.ownerDocument.documentElement: nodes are compared by
\* identity, and no proper descendant of the root has the root's value.
isDocumentElement(element, documentElement) == element = documentElement

\* convertToSemanticHtml; documentElement is element.ownerDocument.documentElement.
RECURSIVE convertToSemanticHtml(_, _)
convertToSemanticHtml(element, documentElement) ==
  LET tagName == toLowerCase(element.tagName)
      htmlTag == htmlTagOf(tagName)
      special ==
        IF htmlTag = "a" /\ hasAttribute(element, "href")
        THEN <<Attr(<<"href">>, getAttribute(element, "href"))>>
        ELSE IF htmlTag = "img" /\ hasAttribute(element, "src")
        THEN <<Attr(<<"src">>, getAttribute(element, "src")),
               Attr(<<"alt">>, getAttribute(element, "alt"))>>
        ELSE <<>>
      other(attr) ==
        IF attr.name # "href" /\ attr.name # "src"
        THEN <<Attr(<<"data-", attr.name>>, attr.value)>>
        ELSE <<>>
      child(c) == convertToSemanticHtml(c, documentElement)
      out == <<Open(htmlTag, Class(<<"xml-", tagName>>) \o special
                             \o FlatMap(element.attributes, other))>>
             \o (IF Len(children(element)) = 0
                 THEN Chars(textContent(element))
                 ELSE FlatMap(children(element), child))
             \o <<Close(htmlTag)>>
  IN  IF isDocumentElement(element, documentElement)
      THEN <<Open("div", Class(<<"semantic-xml-content">>))>> \o Style(SemanticCss)
           \o out \o <<Close("div")>>
      ELSE out

\* createHtmlDisplay
createHtmlDisplay(rootElement) ==
  IF isTabularData(rootElement) THEN convertToHtmlTable(rootElement)
  ELSE convertToSemanticHtml(rootElement, rootElement)

\* Mutant: the serializer writes tag names in lower case, as an HTML one does.
serializeToString_LowerCase(n) ==
  LET RECURSIVE ser(_)
      ser(m) ==
        IF m.type = "text" THEN Chars(m.data)
        ELSE IF m.childNodes = <<>> THEN <<Empty(toLowerCase(m.tagName), m.attributes)>>
        ELSE <<Open(toLowerCase(m.tagName), m.attributes)>> \o FlatMap(m.childNodes, ser)
             \o <<Close(toLowerCase(m.tagName))>>
  IN  ser(n)

\* XMLSerializer.serializeToString
RECURSIVE serializeToString(_)
serializeToString(n) ==
  IF n.type = "text" THEN Chars(n.data)
  ELSE IF n.childNodes = <<>> THEN <<Empty(n.tagName, n.attributes)>>
  ELSE <<Open(n.tagName, n.attributes)>> \o FlatMap(n.childNodes, serializeToString)
       \o <<Close(n.tagName)>>

\* Mutant: the tabular heuristic is tried before the feed and svg tag names.
rendererOf_TabularFirst(rootElement) ==
  LET rootTagName == toLowerCase(rootElement.tagName)
  IN  IF rootTagName = "table" THEN "Table"
      ELSE IF isTabularData(rootElement) THEN "TabularGeneric"
      ELSE IF rootTagName = "rss" \/ rootTagName = "feed" \/ rootTagName = "channel"
      THEN "Feed"
      ELSE IF rootTagName = "svg" THEN "Svg"
      ELSE "Display"

\* The branch convertXmlToHtml takes on the root element.
rendererOf(rootElement) ==
  LET rootTagName == toLowerCase(rootElement.tagName)
  IN  IF rootTagName = "table" THEN "Table"
      ELSE IF rootTagName = "rss" \/ rootTagName = "feed" \/ rootTagName = "channel"
      THEN "Feed"
      ELSE IF rootTagName = "svg" THEN "Svg"
      ELSE IF isTabularData(rootElement) THEN "TabularGeneric"
      ELSE "Display"

\* convertXmlToHtml after the parse, on the document element.
convertXmlToHtml(rootElement) ==
  LET r == rendererOf(rootElement)
  IN  CASE r = "Table" -> convertTableXmlToHtml(rootElement)
        [] r = "Feed" -> convertFeedToHtml(rootElement)
        [] r = "Svg" -> serializeToString(rootElement)
        [] r = "TabularGeneric" -> convertToHtmlTable(rootElement)
        [] OTHER -> createHtmlDisplay(rootElement)

\* xmlDoc.querySelector("parsererror"): the document holds a parsererror element.
parserError(doc) ==
  doc.tagName = "parsererror" \/ querySelector(doc, Sel("parsererror")) # Null

\* What DOMParser returns for a malformed string.
ParserErrorDocument == Elem("parsererror", <<>>, <<TextNode(<<"error">>)>>)

----------------------------------------------------------------------------
(* Strings of markup: parsing and formatting *)

\* `!code.trim()` on a string of markup: nothing but white space.
isBlank(code) ==
  \A i \in 1..Len(code) : code[i].k = "text" /\ trim(code[i].text) = <<>>

\* Appends node n to the innermost open element of the stack.
appendChild(stack, n) ==
  [stack EXCEPT ![Len(stack)].childNodes = Append(@, n)]

\* DOMParser.parseFromString(xmlString, "text/xml") from token i on: stack
\* holds the open elements, root the finished document element (Null before
\* it).  White space around the root is skipped; an end tag that does not
\* match, text or a second element outside the root, an unclosed element and
\* a missing root give the parsererror document.
RECURSIVE parseFrom(_, _, _, _)
parseFrom(s, i, stack, root) ==
  IF i > Len(s)
  THEN IF stack = <<>> /\ root # Null THEN root ELSE ParserErrorDocument
  ELSE LET tok == s[i]
           closeTop ==
             LET top == stack[Len(stack)]
                 rest == SubSeq(stack, 1, Len(stack) - 1)
             IN  IF rest = <<>> THEN parseFrom(s, i + 1, <<>>, top)
                 ELSE parseFrom(s, i + 1, appendChild(rest, top), root)
       IN  IF tok.k = "text"
           THEN IF stack = <<>>
                THEN IF trim(tok.text) = <<>> THEN parseFrom(s, i + 1, stack, root)
                     ELSE ParserErrorDocument
                ELSE parseFrom(s, i + 1, appendChild(stack, TextNode(tok.text)), root)
           ELSE IF tok.k = "open"
           THEN IF stack = <<>> /\ root # Null THEN ParserErrorDocument
                ELSE parseFrom(s, i + 1,
                               Append(stack, Elem(tok.name, tok.attrs, <<>>)), root)
           ELSE IF tok.k = "empty"
           THEN IF stack = <<>>
                THEN IF root # Null THEN ParserErrorDocument
                     ELSE parseFrom(s, i + 1, stack, Elem(tok.name, tok.attrs, <<>>))
                ELSE parseFrom(s, i + 1,
                               appendChild(stack, Elem(tok.name, tok.attrs, <<>>)), root)
           ELSE IF stack = <<>> \/ stack[Len(stack)].tagName # tok.name
                THEN ParserErrorDocument
                ELSE closeTop

parseFromString(str) == parseFrom(str, 1, <<>>, Null)

\* js-beautify with end_with_newline: white space between the tags is laid
\* out anew, text keeps its words, and the result ends with one newline.
formatCode(code) ==
  LET piece(tok) ==
        IF tok.k = "text" THEN Chars(trim(tok.text)) ELSE <<tok>>
  IN  FlatMap(code, piece) \o Chars(<<"\n">>)

\* Mutant: the parsererror check is missing, the error document is formatted.
formatXml_NoErrorCheck(str, beautifyThrows) ==
  IF isBlank(str) THEN <<>>
  ELSE IF beautifyThrows THEN str
  ELSE formatCode(serializeToString(parseFromString(str)))

\* formatXml; beautifyThrows is whether js-beautify throws on this call.
formatXml(str, beautifyThrows) ==
  IF isBlank(str) THEN <<>>
  ELSE LET parsed == parseFromString(str)
       IN  IF parserError(parsed) \/ beautifyThrows THEN str
           ELSE formatCode(serializeToString(parsed))

\* formatHtml; beautifyThrows is whether js-beautify throws on this call.
formatHtml(htmlString, beautifyThrows) ==
  IF isBlank(htmlString) THEN <<>>
  ELSE IF beautifyThrows THEN htmlString
  ELSE formatCode(htmlString)

----------------------------------------------------------------------------
(* The input families: documents DOMParser can return *)

SeqsUpTo(S, n) == UNION {[1..k -> S] : k \in 0..n}

\* The number of elements of the subtree of n.
elementCount(n) == IF n.type = "text" THEN 0 ELSE 1 + Len(descendants(n))

\* The sequences of at most n members of S that hold at most budget elements.
RECURSIVE SeqsWithin(_, _, _)
SeqsWithin(S, n, budget) ==
  {<<>>} \cup
  (IF n = 0 THEN {}
   ELSE UNION {{<<e>> \o rest : rest \in SeqsWithin(S, n - 1, budget - elementCount(e))} :
                 e \in {x \in S : elementCount(x) <= budget}})

Leaf(tag, s) == Elem(tag, <<>>, IF s = <<>> THEN <<>> ELSE <<TextNode(s)>>)

\* Any root tag over repeated children: the family of the dispatch.
RootTags ==
  {"table", "Table", "rss", "feed", "channel", "svg", "SVG", "grid", "dataset",
   "records", "rows", "list", "data"}

MidTags == {"item", "Item"}

GenericLeaf == Elem("x", <<Attr("id", <<"1">>)>>, <<TextNode(<<"t">>)>>)

GenericMid ==
  {Elem(t, <<>>, IF k = 0 THEN <<TextNode(<<"m">>)>> ELSE [i \in 1..k |-> GenericLeaf]) :
     t \in MidTags, k \in 0..MaxKids}

GenericDocs ==
  {Elem(t, <<>>, kids) :
     t \in RootTags, kids \in SeqsWithin(GenericMid, MaxKids, MaxNodes - 2)}

\* A table root over an optional header of columns and rows of cells; a cell
\* may hold a nested row.
ColumnLeaves == {Leaf("column", <<s>>) : s \in {"h", "k"}}

CellLeaves ==
  {Leaf("cell", <<s>>) : s \in {"a", "b"}}
  \cup {Elem("cell", <<>>, <<Elem("row", <<>>, <<Leaf("cell", <<"n">>)>>)>>)}

RowElems == {Elem("row", <<>>, cells) : cells \in SeqsUpTo(CellLeaves, MaxCells)}

HeaderOptions ==
  {<<>>} \cup {<<Elem("header", <<>>, cols)>> : cols \in SeqsUpTo(ColumnLeaves, MaxCells)}

TableDocs ==
  UNION {{Elem(t, <<>>, hdr \o rows) :
            t \in {"table"},
            rows \in SeqsWithin(RowElems, MaxRows,
                                MaxNodes - 1
                                - (IF hdr = <<>> THEN 0 ELSE elementCount(hdr[1])))} :
           hdr \in HeaderOptions}

\* rss > channel, feed and channel roots: an optional title before or after
\* the items, an optional subtitle, items with optional title, link and body.
OneOrNone(e, present) == IF present THEN <<e>> ELSE <<>>

ItemBodies ==
  {<<>>, <<Leaf("summary", <<"s">>)>>,
   <<Leaf("content", <<"c">>), Leaf("description", <<"d">>)>>}

ItemElems(tag) ==
  {Elem(tag, <<>>, title \o link \o body) :
     title \in {<<>>, <<Leaf("title", <<"A">>)>>, <<Leaf("title", <<"B">>)>>},
     link \in {<<>>, <<Leaf("link", <<"L">>)>>},
     body \in ItemBodies}

FeedBodies(itemTag) ==
  {OneOrNone(Leaf("title", <<"T">>), titleAt = "first")
   \o OneOrNone(Leaf("subtitle", <<"S">>), sub)
   \o items
   \o OneOrNone(Leaf("title", <<"T">>), titleAt = "last") :
     titleAt \in {"none", "first", "last"}, sub \in BOOLEAN,
     items \in SeqsWithin(ItemElems(itemTag), MaxItems, MaxNodes - 4)}

FeedDocs ==
  {Elem("rss", <<>>, <<Elem("channel", <<>>, b)>>) : b \in FeedBodies("item")}
  \cup {Elem("channel", <<>>, b) : b \in FeedBodies("item")}
  \cup {Elem("feed", <<>>, b) : b \in FeedBodies("entry")}

\* Rows of fields under a root the tabular predicate accepts by name (rows)
\* or by shape (data); a field X may hold a nested Y.
FieldElems ==
  {Leaf("X", <<"x">>), Leaf("Y", <<"y">>), Leaf("Z", <<"z">>),
   Elem("X", <<>>, <<Leaf("Y", <<"n">>)>>)}

RecordElems == {Elem("r", <<>>, fields) : fields \in SeqsUpTo(FieldElems, MaxCells)}

TabularDocs ==
  {Elem(t, <<>>, rows) :
     t \in {"data", "rows"}, rows \in SeqsWithin(RecordElems, MaxRows, MaxNodes - 2)}

\* Trees of any shape, four levels deep: the tag of an element is drawn by
\* its depth, a leaf holds the text of its position among its siblings.

AttributesOf(tag) ==
  CASE tag = "link" -> <<Attr("href", <<"u">>), Attr("id", <<"1">>)>>
    [] tag = "image" -> <<Attr("src", <<"s">>), Attr("alt", <<"a">>)>>
    [] tag = "img" -> <<Attr("src", <<"s">>)>>
    [] tag = "Item" -> <<Attr("href", <<"u">>)>>
    [] OTHER -> <<>>

PositionText(i) ==
  CASE i = 1 -> <<"One">> [] i = 2 -> <<"Two">> [] i = 3 -> <<"Three">> [] OTHER -> <<"More">>

\* Gives each childless element of the forest the text of its position; the
\* text of a span is surrounded by white space.
WithText(kids) ==
  [i \in 1..Len(kids) |->
     IF kids[i].childNodes = <<>>
     THEN [kids[i] EXCEPT !.childNodes =
             <<TextNode(IF kids[i].tagName = "span"
                        THEN <<" ">> \o PositionText(i) \o <<" ">>
                        ELSE PositionText(i))>>]
     ELSE kids[i]]

\* Mixed content: an Item or doc element with child elements has a text node
\* of its own before them.
OwnText(tag, kids) ==
  IF kids # <<>> /\ tag \in {"Item", "doc"} THEN <<TextNode(<<"own", " ">>)>> ELSE <<>>

TreesOver(tags, below, budget) ==
  {Elem(t, AttributesOf(t), OwnText(t, kids) \o WithText(kids)) :
     t \in tags, kids \in SeqsWithin(below, MaxKids, budget - 1)}

Depth3Trees == TreesOver({"span"}, {}, MaxNodes - 7)

Depth2Trees == TreesOver({"item", "image", "img"}, Depth3Trees, MaxNodes - 6)

Depth1Trees == TreesOver({"item", "Item", "list", "link"}, Depth2Trees, MaxNodes - 5)

SemanticDocs == TreesOver({"list", "doc", "constructor"}, Depth1Trees, MaxNodes - 4)

----------------------------------------------------------------------------
(* One conversion request *)

\* null in the error state of the component (a message is never empty).
NoError == <<>>

NoZip == [original |-> <<>>, converted |-> <<>>]

NotFormatted == [kind |-> "none", input |-> <<>>, output |-> <<>>, threw |-> FALSE]

\* The component as its useState calls construct it.
Mounted ==
  /\ activeTab = "upload"
  /\ xmlInput = <<>>
  /\ htmlOutput = <<>>
  /\ renderedHtml = <<>>
  /\ error = NoError
  /\ isConverting = FALSE
  /\ formattedXml = <<>>
  /\ zip = NoZip

\* The malformed string <a><b></a>.
MalformedExample == <<Open("a", <<>>), Open("b", <<>>), Close("a")>>

InitWith(docs) ==
  /\ xmlDoc \in docs \cup {ParserErrorDocument}
  /\ xmlString = (IF xmlDoc = ParserErrorDocument THEN MalformedExample
                  ELSE serializeToString(xmlDoc))
  /\ phase = "pending"
  /\ html = <<>>
  /\ formatted = NotFormatted
  /\ Mounted

\* convertXmlToHtml resolves with the rendering of the document element.
Resolve ==
  /\ phase = "pending"
  /\ ~parserError(xmlDoc)
  /\ html' = convertXmlToHtml(xmlDoc)
  /\ phase' = "resolved"
  /\ UNCHANGED <<xmlString, xmlDoc, formatted>>
  /\ UNCHANGED uiVars

\* convertXmlToHtml throws "Invalid XML format".
Reject ==
  /\ phase = "pending"
  /\ parserError(xmlDoc)
  /\ phase' = "rejected"
  /\ UNCHANGED <<xmlString, xmlDoc, html, formatted>>
  /\ UNCHANGED uiVars

Next == Resolve \/ Reject

Init == InitWith(GenericDocs)

Spec == Init /\ [][Next]_vars

InitTable == InitWith(TableDocs)

SpecTable == InitTable /\ [][Next]_vars

InitFeed == InitWith(FeedDocs)

SpecFeed == InitFeed /\ [][Next]_vars

InitTabular == InitWith(TabularDocs)

SpecTabular == InitTabular /\ [][Next]_vars

InitSemantic == InitWith(SemanticDocs)

SpecSemantic == InitSemantic /\ [][Next]_vars

----------------------------------------------------------------------------
(* Conversion and formatting of strings, malformed ones included *)

StringTokens ==
  {Open("list", <<>>), Close("list"), Open("item", <<>>), Empty("item", <<>>),
   Empty("grid", <<>>), Empty("parsererror", <<>>)}
  \cup {[k |-> "text", name |-> "#text", attrs |-> <<>>, text |-> s] :
          s \in {<<"t">>, <<" ">>}}

\* The strings of at most MaxLen tokens; a run of text is one token.
XmlStrings ==
  {s \in SeqsUpTo(StringTokens, MaxLen) :
     \A i \in 1..(Len(s) - 1) : ~(s[i].k = "text" /\ s[i + 1].k = "text")}

InitString ==
  /\ xmlString \in XmlStrings
  /\ xmlDoc = parseFromString(xmlString)
  /\ phase = "pending"
  /\ html = <<>>
  /\ formatted = NotFormatted
  /\ Mounted

\* A call of formatXml on the string.
FormatXml ==
  /\ formatted.kind = "none"
  /\ \E beautifyThrows \in BOOLEAN :
       formatted' = [kind |-> "xml", input |-> xmlString,
                     output |-> formatXml(xmlString, beautifyThrows),
                     threw |-> beautifyThrows /\ ~isBlank(xmlString)
                               /\ ~parserError(parseFromString(xmlString))]
  /\ UNCHANGED <<xmlString, xmlDoc, phase, html>>
  /\ UNCHANGED uiVars

\* A call of formatHtml on the result of the conversion.
FormatHtml ==
  /\ phase = "resolved"
  /\ formatted.kind # "html"
  /\ \E beautifyThrows \in BOOLEAN :
       formatted' = [kind |-> "html", input |-> html,
                     output |-> formatHtml(html, beautifyThrows),
                     threw |-> beautifyThrows /\ ~isBlank(html)]
  /\ UNCHANGED <<xmlString, xmlDoc, phase, html>>
  /\ UNCHANGED uiVars

NextString == Resolve \/ Reject \/ FormatXml \/ FormatHtml

SpecString == InitString /\ [][NextString]_vars

----------------------------------------------------------------------------
(* The XmlConverter component *)

\* What the user types or uploads: two well-formed documents, an empty grid,
\* a malformed string, white space and the empty string.
UiStrings ==
  {<<Open("list", <<>>), Chars(<<"t">>)[1], Close("list")>>,
   <<Empty("item", <<>>)>>,
   <<Empty("grid", <<>>)>>,
   <<Open("list", <<>>), Open("item", <<>>), Close("list")>>,
   Chars(<<" ">>),
   <<>>}

\* `Error: ${err.message}` for the error convertXmlToHtml throws.
InvalidXmlMessage == <<"Error: ", "Invalid XML format">>

InitUi ==
  /\ xmlString = <<>>
  /\ xmlDoc = Null
  /\ phase = "idle"
  /\ html = <<>>
  /\ formatted = NotFormatted
  /\ Mounted

\* The useEffect on [xmlInput], run when the input became value: formattedXml
\* and, for a blank input, htmlOutput.  keep is htmlOutput as the handler
\* left it.
InputEffect(value, keep) ==
  IF ~isBlank(value)
  THEN /\ \E beautifyThrows \in BOOLEAN :
            formattedXml' = formatXml(value, beautifyThrows)
       /\ htmlOutput' = keep
  ELSE /\ formattedXml' = <<>>
       /\ htmlOutput' = <<>>

\* handleXmlInput, from the textarea of the input tab, and the effect.
HandleXmlInput ==
  /\ ~isConverting
  /\ activeTab = "input"
  /\ \E value \in UiStrings \ {xmlInput} :
       /\ xmlInput' = value
       /\ InputEffect(value, htmlOutput)
  /\ error' = NoError
  /\ UNCHANGED <<activeTab, renderedHtml, isConverting, zip>>
  /\ UNCHANGED libVars

\* handleFileUpload, from the FileUploader of the upload tab, and the effect
\* when the content differs from the input.
HandleFileUpload ==
  /\ ~isConverting
  /\ activeTab = "upload"
  /\ \E content \in UiStrings :
       /\ xmlInput' = content
       /\ IF content # xmlInput THEN InputEffect(content, htmlOutput)
          ELSE UNCHANGED <<formattedXml, htmlOutput>>
  /\ activeTab' = "input"
  /\ error' = NoError
  /\ UNCHANGED <<renderedHtml, isConverting, zip>>
  /\ UNCHANGED libVars

\* handleConvert up to its await: the button is enabled for an input that is
\* not blank while no conversion runs.
HandleConvert ==
  /\ activeTab = "input"
  /\ ~isConverting
  /\ ~isBlank(xmlInput)
  /\ isConverting' = TRUE
  /\ xmlString' = xmlInput
  /\ xmlDoc' = parseFromString(xmlInput)
  /\ phase' = "pending"
  /\ html' = <<>>
  /\ UNCHANGED <<formatted, activeTab, xmlInput, htmlOutput, renderedHtml, error,
                 formattedXml, zip>>

\* handleConvert after the await, the promise resolved: try block and finally.
ConvertSucceeded ==
  /\ isConverting
  /\ phase = "resolved"
  /\ renderedHtml' = html
  /\ \E beautifyThrows \in BOOLEAN :
       htmlOutput' = formatHtml(html, beautifyThrows)
  /\ activeTab' = "preview"
  /\ error' = NoError
  /\ isConverting' = FALSE
  /\ UNCHANGED <<xmlInput, formattedXml, zip>>
  /\ UNCHANGED libVars

\* handleConvert after the await, the promise rejected: catch and finally.
ConvertFailed ==
  /\ isConverting
  /\ phase = "rejected"
  /\ error' = InvalidXmlMessage
  /\ isConverting' = FALSE
  /\ UNCHANGED <<activeTab, xmlInput, htmlOutput, renderedHtml, formattedXml, zip>>
  /\ UNCHANGED libVars

\* handleReset, from the input tab, and the effect when the input was not
\* empty.
HandleReset ==
  /\ ~isConverting
  /\ activeTab = "input"
  /\ xmlInput' = <<>>
  /\ htmlOutput' = <<>>
  /\ error' = NoError
  /\ activeTab' = "upload"
  /\ formattedXml' = (IF xmlInput # <<>> THEN <<>> ELSE formattedXml)
  /\ UNCHANGED <<renderedHtml, isConverting, zip>>
  /\ UNCHANGED libVars

\* Tabs onValueChange: the preview trigger is disabled without htmlOutput.
SetActiveTab ==
  /\ ~isConverting
  /\ \E tab \in {"upload", "input", "preview"} \ {activeTab} :
       /\ tab = "preview" => htmlOutput # <<>>
       /\ activeTab' = tab
  /\ UNCHANGED <<xmlInput, htmlOutput, renderedHtml, error, isConverting,
                 formattedXml, zip>>
  /\ UNCHANGED libVars

\* handleDownloadZip, from the ZIP button the preview shows with htmlOutput.
HandleDownloadZip ==
  /\ ~isConverting
  /\ activeTab = "preview"
  /\ htmlOutput # <<>>
  /\ xmlInput # <<>>
  /\ zip' = [original |-> xmlInput, converted |-> htmlOutput]
  /\ UNCHANGED <<activeTab, xmlInput, htmlOutput, renderedHtml, error, isConverting,
                 formattedXml>>
  /\ UNCHANGED libVars

NextUi ==
  \/ HandleXmlInput
  \/ HandleFileUpload
  \/ HandleConvert
  \/ Resolve
  \/ Reject
  \/ ConvertSucceeded
  \/ ConvertFailed
  \/ HandleReset
  \/ SetActiveTab
  \/ HandleDownloadZip

SpecUi == InitUi /\ [][NextUi]_vars

----------------------------------------------------------------------------
(* Reading the output and the source *)

\* The root and its descendants, in document order.
elementsOf(root) ==
  LET el(d) == d.el
  IN  <<root>> \o Map(descendants(root), el)

IsTag(tok) == tok.k = "open" \/ tok.k = "empty"

\* The start tags of an HTML string, in order.
startTags(h) == SelectSeq(h, IsTag)

CountOpen(h, tag) == Cardinality({i \in 1..Len(h) : IsTag(h[i]) /\ h[i].name = tag})

HasClass(tok, c) ==
  \E i \in 1..Len(tok.attrs) : tok.attrs[i].name = <<"class">> /\ tok.attrs[i].value = c

CountClass(h, c) == Cardinality({i \in 1..Len(h) : IsTag(h[i]) /\ HasClass(h[i], c)})

Indices(h, k, tag) == {i \in 1..Len(h) : h[i].k = k /\ h[i].name = tag}

SetToSeq(S) ==
  LET RECURSIVE asc(_)
      asc(T) == IF T = {} THEN <<>>
                ELSE LET m == CHOOSE x \in T : \A y \in T : x <= y
                     IN  <<m>> \o asc(T \ {m})
  IN  asc(S)

\* The content of every `tag` element of h, in order (elements of one tag
\* do not nest in the outputs read this way).
contentsOf(h, tag) ==
  LET opens == SetToSeq(Indices(h, "open", tag))
      body(i) == LET ends == {j \in Indices(h, "close", tag) : j > i}
                     j == CHOOSE x \in ends : \A y \in ends : x <= y
                 IN  SubSeq(h, i + 1, j - 1)
  IN  Map(opens, body)

\* The character data of h, concatenated.
textOf(h) ==
  LET t(tok) == tok.text
  IN  FlatMap(h, t)

\* The texts of the `tag` elements of h, in order.
textsOf(h, tag) == Map(contentsOf(h, tag), textOf)

HasTag(root, tag) ==
  \E i \in 1..Len(descendants(root)) : descendants(root)[i].el.tagName = tag

IsLeafNamed(e, tag) == e.tagName = tag /\ children(e) = <<>>

\* A table root holding at most one header, of column children, and row
\* children of cell children.
WellFormedTable(root) ==
  /\ toLowerCase(root.tagName) = "table"
  /\ \A i \in 1..Len(children(root)) :
       LET c == children(root)[i]
       IN  \/ /\ c.tagName = "header"
              /\ \A j \in 1..Len(children(c)) : IsLeafNamed(children(c)[j], "column")
           \/ /\ c.tagName = "row"
              /\ \A j \in 1..Len(children(c)) : IsLeafNamed(children(c)[j], "cell")
  /\ Cardinality({i \in 1..Len(children(root)) : children(root)[i].tagName = "header"}) <= 1

childrenNamed(e, tag) ==
  LET named(c) == c.tagName = tag
  IN  SelectSeq(children(e), named)

\* The texts of the children of e, by position.
childTexts(e) == Map(children(e), textContent)

IsFeedRoot(root) == toLowerCase(root.tagName) \in {"rss", "feed", "channel"}

\* The item and entry elements of the source, in document order.
sourceItems(root) ==
  LET isItem(e) == e.tagName = "item" \/ e.tagName = "entry"
  IN  SelectSeq(elementsOf(root), isItem)

\* The text of the first descendant of e named in tags, or d without one.
firstTextIn(e, tags, d) ==
  LET named(x) == x.tagName \in tags
      found == SelectSeq(Tail(elementsOf(e)), named)
  IN  IF found = <<>> \/ textContent(found[1]) = <<>> THEN d ELSE textContent(found[1])

\* The feed's own title: a title child of the root or of a channel element.
ownTitles(root) ==
  LET own(d) == d.el.tagName = "title"
                /\ (d.parent = "channel" \/ d.parent = root.tagName)
                /\ ~(d.parent \in {"item", "entry"})
      el(d) == d.el
  IN  Map(SelectSeq(descendants(root), own), el)

firstIndex(h, k, tag) ==
  IF Indices(h, k, tag) = {} THEN 0
  ELSE CHOOSE i \in Indices(h, k, tag) : \A j \in Indices(h, k, tag) : i <= j

classIndices(h, c) == {i \in 1..Len(h) : IsTag(h[i]) /\ HasClass(h[i], c)}

\* The character data that follows each start tag of class c, in order.
textAfter(h, c) ==
  LET at(i) == IF h[i + 1].k = "text" THEN h[i + 1].text ELSE <<>>
  IN  Map(SetToSeq(classIndices(h, c)), at)

hrefOf(tok) ==
  LET idx == {i \in 1..Len(tok.attrs) : tok.attrs[i].name = <<"href">>}
  IN  IF idx = {} THEN <<>> ELSE tok.attrs[CHOOSE i \in idx : TRUE].value

\* The number of elements open after the first k tokens of h.
RECURSIVE openAfter(_, _)
openAfter(h, k) ==
  IF k = 0 THEN 0
  ELSE openAfter(h, k - 1)
       + (IF h[k].k = "open" THEN 1 ELSE IF h[k].k = "close" THEN -1 ELSE 0)

\* The first field of row named c, as the row's own child.
ownField(row, c) ==
  IF childrenNamed(row, c) = <<>> THEN <<>> ELSE textContent(childrenNamed(row, c)[1])

\* The tag names of the fields of all rows, row by row.
fieldTags(rows) ==
  LET tag(f) == <<f.tagName>>
      tags(row) == FlatMap(children(row), tag)
  IN  FlatMap(rows, tags)

\* s holds each member of t once, in the order of first occurrence in t.
IsFirstSeenOrder(s, t) ==
  /\ {s[i] : i \in 1..Len(s)} = {t[i] : i \in 1..Len(t)}
  /\ \A i, j \in 1..Len(s) : i < j =>
       /\ s[i] # s[j]
       /\ (CHOOSE m \in 1..Len(t) : t[m] = s[i] /\ \A n \in 1..(m - 1) : t[n] # s[i])
          < (CHOOSE m \in 1..Len(t) : t[m] = s[j] /\ \A n \in 1..(m - 1) : t[n] # s[j])

\* The HTML tag the specification's lookup table gives, div without an entry.
mappedTag(e) ==
  IF toLowerCase(e.tagName) \in DOMAIN tagMapping
  THEN tagMapping[toLowerCase(e.tagName)] ELSE "div"

\* The tabular predicate as the specification words it.
TabularPredicate(e) ==
  \/ toLowerCase(e.tagName) \in {"table", "grid", "dataset", "records", "rows"}
  \/ /\ Len(children(e)) > 1
     /\ \A i, j \in 1..Len(children(e)) : children(e)[i].tagName = children(e)[j].tagName
     /\ Len(children(children(e)[1])) > 1

\* The decision order as the specification words it.
ClaimedShape(root) ==
  LET t == toLowerCase(root.tagName)
  IN  IF t = "table" THEN "Table"
      ELSE IF t \in {"rss", "feed", "channel"} THEN "Feed"
      ELSE IF t = "svg" THEN "SvgPassthrough"
      ELSE IF TabularPredicate(root) THEN "TabularGeneric"
      ELSE "SemanticGeneric"

RenderAs(shape, root) ==
  CASE shape = "Table" -> convertTableXmlToHtml(root)
    [] shape = "Feed" -> convertFeedToHtml(root)
    [] shape = "SvgPassthrough" -> serializeToString(root)
    [] shape = "TabularGeneric" -> convertToHtmlTable(root)
    [] shape = "SemanticGeneric" -> convertToSemanticHtml(root, root)

----------------------------------------------------------------------------
(* The claims *)

\* C1: a resolved conversion is the output of the one renderer the first
\* matching rule names (table; rss, feed, channel; svg; tabular predicate;
\* otherwise semantic), whatever later rules the root also satisfies.
C1_FirstMatchWins ==
  phase = "resolved" =>
    html = RenderAs(ClaimedShape(xmlDoc), xmlDoc)

\* C1 witness: a channel root of repeated multi-field rows, rendered as a feed.
C1_Witness ==
  /\ phase = "resolved"
  /\ xmlDoc.tagName = "channel"
  /\ TabularPredicate(xmlDoc)
  /\ html = convertFeedToHtml(xmlDoc)
  /\ html # convertToHtmlTable(xmlDoc)

C7_SvgPassthrough ==
  phase = "resolved" /\ toLowerCase(xmlDoc.tagName) = "svg" =>
    /\ html = serializeToString(xmlDoc)
    /\ Len(startTags(html)) = Len(elementsOf(xmlDoc))
    /\ \A i \in 1..Len(startTags(html)) :
         /\ startTags(html)[i].name = elementsOf(xmlDoc)[i].tagName
         /\ startTags(html)[i].attrs = elementsOf(xmlDoc)[i].attributes

\* C7 witness: an SVG root over repeated multi-field rows, passed through.
C7_Witness ==
  /\ phase = "resolved"
  /\ xmlDoc.tagName = "SVG"
  /\ TabularPredicate(xmlDoc)
  /\ html[1] = Open("SVG", <<>>)
  /\ CountOpen(html, "x") = 4

\* C3: for a well-formed table document the output holds exactly one table,
\* a thead row with one th per column in document order, and one body tr per
\* row whose td are that row's cells in source order.
C3_TableByPosition ==
  phase = "resolved" /\ WellFormedTable(xmlDoc) =>
    LET headers == childrenNamed(xmlDoc, "header")
        rows == childrenNamed(xmlDoc, "row")
        thead == contentsOf(html, "thead")
        tbody == contentsOf(html, "tbody")
        bodyRows == IF tbody = <<>> THEN <<>> ELSE contentsOf(tbody[1], "tr")
        cellsOf(tr) == textsOf(tr, "td")
    IN  /\ CountOpen(html, "table") = 1
        /\ headers # <<>> =>
             /\ Len(thead) = 1
             /\ Len(contentsOf(thead[1], "tr")) = 1
             /\ textsOf(thead[1], "th") = childTexts(headers[1])
        /\ CountOpen(html, "th") = (IF headers = <<>> THEN 0 ELSE Len(children(headers[1])))
        /\ Map(bodyRows, cellsOf) = Map(rows, childTexts)
        /\ CountOpen(html, "tr") = Len(rows) + Len(thead)

\* C3 witness: a header of two columns h, k, a row of cells b, a and a row
\* without cells.
C3_Witness ==
  /\ phase = "resolved"
  /\ WellFormedTable(xmlDoc)
  /\ Len(children(xmlDoc)) = 3
  /\ childTexts(children(xmlDoc)[1]) = <<<<"h">>, <<"k">>>>
  /\ textsOf(html, "th") = <<<<"h">>, <<"k">>>>
  /\ Len(contentsOf(html, "tr")) = 3
  /\ textsOf(html, "td") = <<<<"b">>, <<"a">>>>

\* C4 as stated: a table root without row elements is rendered with an empty
\* tbody (and one without a header element has no thead).
C4_EmptyTbodyAsStated ==
  phase = "resolved" /\ toLowerCase(xmlDoc.tagName) = "table" =>
    /\ ~HasTag(xmlDoc, "header") => CountOpen(html, "thead") = 0
    /\ ~HasTag(xmlDoc, "row") =>
         CountOpen(html, "tbody") = 1 /\ contentsOf(html, "tbody") = <<<<>>>>

\* C4 amended: a table root whose document has no header element is rendered
\* without a thead, and one whose document has no row element is rendered
\* without any tbody; with row elements there is exactly one tbody.
C4_NoTheadNoTbody ==
  phase = "resolved" /\ toLowerCase(xmlDoc.tagName) = "table" =>
    /\ ~HasTag(xmlDoc, "header") => CountOpen(html, "thead") = 0
    /\ ~HasTag(xmlDoc, "row") => CountOpen(html, "tbody") = 0
    /\ HasTag(xmlDoc, "row") => CountOpen(html, "tbody") = 1

\* C4 witness: a table root with neither header nor row, rendered as the bare
\* table.
C4_Witness ==
  /\ phase = "resolved"
  /\ toLowerCase(xmlDoc.tagName) = "table"
  /\ ~HasTag(xmlDoc, "header") /\ ~HasTag(xmlDoc, "row")
  /\ CountOpen(html, "table") = 1
  /\ CountOpen(html, "thead") = 0 /\ CountOpen(html, "tbody") = 0

\* C5: for an rss, feed or channel root the output holds one feed-item block
\* per item or entry element of the source, in document order, all of them
\* after the feed title and the feed description.
C5_FeedItemsInOrder ==
  phase = "resolved" /\ IsFeedRoot(xmlDoc) =>
    LET items == sourceItems(xmlDoc)
        blocks == classIndices(html, <<"feed-item">>)
        title(item) == firstTextIn(item, {"title"}, <<"Untitled">>)
        h1 == firstIndex(html, "close", "h1")
        desc == classIndices(html, <<"feed-description">>)
    IN  /\ Cardinality(blocks) = Len(items)
        /\ textsOf(html, "a") = Map(items, title)
        /\ Len(contentsOf(html, "h2")) = Len(items)
        /\ h1 # 0
        /\ \A d \in desc : h1 < d
        /\ \A b \in blocks : h1 < b /\ \A d \in desc : d < b

\* C5 witness: a feed of two entries titled B then A under a title and a
\* subtitle.
C5_Witness ==
  /\ phase = "resolved"
  /\ xmlDoc.tagName = "feed"
  /\ Len(sourceItems(xmlDoc)) = 2
  /\ textsOf(html, "a") = <<<<"B">>, <<"A">>>>
  /\ textsOf(html, "h1") = <<<<"T">>>>
  /\ textsOf(html, "p") = <<<<"S">>>>

\* C6 as stated: the feed heading is the feed's own title, "XML Feed" when the
\* feed has none; each item links to its link text (default #), shows its
\* title (default Untitled) and the first of its description, summary,
\* content (default empty).
C6_FeedDefaultsAsStated ==
  phase = "resolved" /\ IsFeedRoot(xmlDoc) =>
    LET items == sourceItems(xmlDoc)
        own == ownTitles(xmlDoc)
        title(item) == firstTextIn(item, {"title"}, <<"Untitled">>)
        link(item) == firstTextIn(item, {"link"}, <<"#">>)
        body(item) == firstTextIn(item, {"description", "summary", "content"}, <<>>)
        anchors == SelectSeq(html, LAMBDA tok : tok.k = "open" /\ tok.name = "a")
    IN  /\ textsOf(html, "h1") =
             <<IF own = <<>> THEN <<"XML Feed">>
               ELSE OrElse(textContent(own[1]), <<"XML Feed">>)>>
        /\ textsOf(html, "a") = Map(items, title)
        /\ Map(anchors, hrefOf) = Map(items, link)
        /\ textAfter(html, <<"feed-content">>) = Map(items, body)

\* C8 as stated: in the tabular renderer the columns are the distinct field
\* tags of all rows in first-seen order, and the cell of a row under a column
\* is the text of the row's own field of that name, empty without one.
C8_CellsByOwnFieldAsStated ==
  phase = "resolved" /\ ClaimedShape(xmlDoc) = "TabularGeneric"
    /\ children(xmlDoc) # <<>> =>
    LET rows == children(xmlDoc)
        first(t) == t[1]
        cols == Map(textsOf(contentsOf(html, "thead")[1], "th"), first)
        cellsOf(tr) == textsOf(tr, "td")
        expected(row) == LET own(c) == ownField(row, c) IN Map(cols, own)
    IN  /\ IsFirstSeenOrder(cols, fieldTags(rows))
        /\ Map(contentsOf(contentsOf(html, "tbody")[1], "tr"), cellsOf)
             = Map(rows, expected)

\* C9 as stated: the semantic renderer writes one element per source element,
\* in document order, with the tag of the lookup table, div for a tag the
\* table lacks, and the class xml-<tag name> (compared in lower case).
C9_TagMappingAsStated ==
  phase = "resolved" /\ ClaimedShape(xmlDoc) = "SemanticGeneric" =>
    LET rendered == startTags(SubSeq(html, 5, Len(html) - 1))
        source == elementsOf(xmlDoc)
    IN  /\ Len(rendered) = Len(source)
        /\ \A i \in 1..Len(source) :
             /\ rendered[i].name = mappedTag(source[i])
             /\ HasClass(rendered[i], <<"xml-", toLowerCase(source[i].tagName)>>)
        /\ (xmlDoc.tagName = "list" /\ Len(source) = 3 /\ Len(children(xmlDoc)) = 2
            /\ source[2].tagName = "item" /\ source[3].tagName = "item") =>
             /\ CountOpen(html, "ul") = 1
             /\ textsOf(html, "li") = <<<<"One">>, <<"Two">>>>

\* C10: a document rendered by the semantic renderer holds the
\* semantic-xml-content container and its style block exactly once, the
\* container opening first and closing last with everything else inside it.
C10_WrapperOnce ==
  phase = "resolved" /\ ClaimedShape(xmlDoc) = "SemanticGeneric" =>
    /\ CountClass(html, <<"semantic-xml-content">>) = 1
    /\ CountOpen(html, "style") = 1
    /\ html[1] = Open("div", Class(<<"semantic-xml-content">>))
    /\ html[2] = Open("style", <<>>)
    /\ html[Len(html)] = Close("div")
    /\ \A k \in 1..(Len(html) - 1) : openAfter(html, k) > 0
    /\ openAfter(html, Len(html)) = 0

\* C10 witness: a document four levels deep, wrapped once.
C10_Witness ==
  /\ phase = "resolved"
  /\ ClaimedShape(xmlDoc) = "SemanticGeneric"
  /\ HasTag(xmlDoc, "span")
  /\ Len(elementsOf(xmlDoc)) = 4
  /\ CountClass(html, <<"semantic-xml-content">>) = 1
  /\ CountClass(html, <<"xml-", "span">>) = 1

\* The attributes of start tag tok whose name is n.
attrsNamed(tok, n) == {i \in 1..Len(tok.attrs) : tok.attrs[i].name = n}

\* Start tag tok carries the attribute n with the value v.
HasAttr(tok, n, v) == \E i \in attrsNamed(tok, n) : tok.attrs[i].value = v

\* C11 as stated: on every element of the semantic rendering, href is written
\* as href on an anchor, src as src with alt (default empty) on an image,
\* every other source attribute as data-<name>, and each source attribute is
\* written once, never both under its own name and under data-<name>.
C11_AttributesOnceAsStated ==
  phase = "resolved" /\ ClaimedShape(xmlDoc) = "SemanticGeneric" =>
    LET rendered == startTags(SubSeq(html, 5, Len(html) - 1))
        source == elementsOf(xmlDoc)
    IN  \A i \in 1..Len(source) :
          LET e == source[i]
              tok == rendered[i]
              asItself(a) ==
                \/ a.name = "href" /\ mappedTag(e) = "a"
                \/ a.name \in {"src", "alt"} /\ mappedTag(e) = "img" /\ hasAttribute(e, "src")
          IN  /\ mappedTag(e) = "img" /\ hasAttribute(e, "src") =>
                   HasAttr(tok, <<"alt">>, getAttribute(e, "alt"))
              /\ \A k \in 1..Len(e.attributes) :
                   LET a == e.attributes[k]
                   IN  /\ asItself(a) => HasAttr(tok, <<a.name>>, a.value)
                       /\ ~asItself(a) => HasAttr(tok, <<"data-", a.name>>, a.value)
                       /\ Cardinality(attrsNamed(tok, <<a.name>>))
                          + Cardinality(attrsNamed(tok, <<"data-", a.name>>)) = 1

\* The elements of the document without child elements, in document order.
leavesOf(root) ==
  LET isLeaf(e) == children(e) = <<>>
  IN  SelectSeq(elementsOf(root), isLeaf)

\* The character data of h, piece by piece.
textTokens(h) ==
  LET isText(tok) == tok.k = "text"
      t(tok) == tok.text
  IN  Map(SelectSeq(h, isText), t)

\* C12 as stated: the character data of the semantic rendering is, in
\* document order, the trimmed text content of each leaf element and nothing
\* else; an element with child elements adds no text of its own.
C12_TrimmedLeafTextAsStated ==
  phase = "resolved" /\ ClaimedShape(xmlDoc) = "SemanticGeneric" =>
    LET trimmed(e) == trim(textContent(e))
        nonEmpty(s) == s # <<>>
    IN  textTokens(SubSeq(html, 5, Len(html) - 1))
          = SelectSeq(Map(leavesOf(xmlDoc), trimmed), nonEmpty)

\* A string of markup is well-formed XML: one root element, every start tag
\* closed by its own end tag in nesting order, nothing but white space
\* outside the root.  open is the sequence of the names of the open elements.
RECURSIVE WellFormedFrom(_, _, _, _)
WellFormedFrom(s, i, open, rootSeen) ==
  IF i > Len(s) THEN open = <<>> /\ rootSeen
  ELSE IF s[i].k = "text"
  THEN (open # <<>> \/ trim(s[i].text) = <<>>) /\ WellFormedFrom(s, i + 1, open, rootSeen)
  ELSE IF s[i].k = "close"
  THEN /\ open # <<>>
       /\ open[Len(open)] = s[i].name
       /\ WellFormedFrom(s, i + 1, SubSeq(open, 1, Len(open) - 1), rootSeen)
  ELSE /\ open # <<>> \/ ~rootSeen
       /\ WellFormedFrom(s, i + 1,
                         IF s[i].k = "open" THEN Append(open, s[i].name) ELSE open, TRUE)

WellFormed(s) == WellFormedFrom(s, 1, <<>>, FALSE)

\* C13 as stated: a malformed string is never converted (the promise is
\* rejected), formatXml returns every malformed string unchanged, and a
\* formatter whose reformatting failed returns its input.
C13_MalformedUnchangedAsStated ==
  /\ ~WellFormed(xmlString) /\ phase # "pending" => phase = "rejected"
  /\ ~WellFormed(xmlString) /\ formatted.kind = "xml" => formatted.output = xmlString
  /\ formatted.threw => formatted.output = formatted.input

\* C13 amended: a malformed string is never converted (the promise is
\* rejected); formatXml returns a malformed string that is not blank
\* unchanged, and the empty string for a blank one (empty or white space
\* only); a formatter whose reformatting failed returns its input.
C13_MalformedRejectedKept ==
  /\ ~WellFormed(xmlString) /\ phase # "pending" => phase = "rejected"
  /\ ~WellFormed(xmlString) /\ formatted.kind = "xml" =>
       formatted.output = (IF isBlank(xmlString) THEN <<>> ELSE xmlString)
  /\ formatted.threw => formatted.output = formatted.input

\* C13 witness: <list><item></list> was rejected and formatXml gave it back.
C13_Witness ==
  /\ xmlString = <<Open("list", <<>>), Open("item", <<>>), Close("list")>>
  /\ phase = "rejected"
  /\ formatted.kind = "xml"
  /\ formatted.output = xmlString

\* C14 as stated: the conversion of a well-formed string resolves with a
\* non-empty HTML string, a complete fragment (every element it opens is
\* closed), also for a root without child elements.
C14_NonEmptyFragmentAsStated ==
  WellFormed(xmlString) /\ phase # "pending" =>
    /\ phase = "resolved"
    /\ html # <<>>
    /\ openAfter(html, Len(html)) = 0
    /\ \A k \in 1..Len(html) : openAfter(html, k) >= 0

\* The preview tab is open and shows HTML output.
PreviewShowsOutput == activeTab = "preview" /\ htmlOutput # <<>>

\* The last conversion failed and its input is still the input.
FailedInputCurrent == phase = "rejected" /\ ~isConverting /\ xmlInput = xmlString

\* htmlText is the formatted conversion of xmlText.
IsConversionOf(htmlText, xmlText) ==
  LET doc == parseFromString(xmlText)
  IN  /\ ~parserError(doc)
      /\ \E beautifyThrows \in BOOLEAN :
           htmlText = formatHtml(convertXmlToHtml(doc), beautifyThrows)

\* C15 as stated: the step in which handleConvert fails keeps xmlInput, sets
\* error to a message, puts isConverting back to false and does not switch to
\* the preview; and while the failed input is the input, the preview shows
\* no HTML output (none of its own, none of another input).
C15_AllOrNothingAsStated ==
  [][/\ ConvertFailed =>
          /\ xmlInput' = xmlInput
          /\ error' # NoError
          /\ ~isConverting'
          /\ activeTab' # "preview"
     /\ FailedInputCurrent' => ~PreviewShowsOutput']_vars

\* C16 as stated: htmlOutput, when not empty, is the formatted conversion of
\* the current xmlInput; the preview shows the rendering of the current input
\* next to it; the archive pairs original.xml with its own conversion.
C16_OutputOfCurrentInputAsStated ==
  /\ htmlOutput # <<>> => IsConversionOf(htmlOutput, xmlInput)
  /\ PreviewShowsOutput =>
       /\ ~parserError(parseFromString(xmlInput))
       /\ renderedHtml = convertXmlToHtml(parseFromString(xmlInput))
  /\ zip # NoZip => IsConversionOf(zip.converted, zip.original)

====
